---- MODULE Spec2Model ----
(***************************************************************************)
(* Hierarchy validation and role cascading of the community-management     *)
(* backend: the District / Sector / Cell / IntoreGroup / User collections, *)
(* the pre('save') hooks of the four hierarchy schemas, the unawaited      *)
(* User.findByIdAndUpdate commands they issue, and validateHierarchy.      *)
(*                                                                         *)
(* ObjectIds are modelled by their string form, so id.toString() equality  *)
(* is equality of ids.  A missing / undefined / null reference is None.    *)
(***************************************************************************)
EXTENDS Integers, Sequences, FiniteSets, TLC

VARIABLES
    districts,  \* District collection: id -> document
    sectors,    \* Sector collection:   id -> document
    cells,      \* Cell collection:     id -> document
    groups,     \* IntoreGroup collection: id -> document
    users,      \* User collection:     id -> document
    pending,    \* User.findByIdAndUpdate commands issued with .exec() and not yet applied
    last,       \* the latest operation, its inputs and its outcome
    nsaves,     \* number of save() calls made so far
    audit,      \* AuditLog collection: the stored records, oldest first
    now,        \* Date.now(), in ticks
    limits,     \* rateLimitSensitive: the windowMs and max the middleware was built with
    requests,   \* rateLimitSensitive: the Map of its closure, key -> stored timestamps
    admitted,   \* history: key -> timestamps of the requests passed on to next()
    denied,     \* history: key -> times at which a request was answered 429
    account,    \* the stored loginAttempts and lockUntil of one User
    loaded,     \* login request -> the copy of the User document it has loaded
    calls       \* history of the incLoginAttempts and resetLoginAttempts calls

rateVars == <<now, limits, requests, admitted, denied>>

loginVars == <<account, loaded, calls>>

vars == <<districts, sectors, cells, groups, users, pending, last, nsaves, audit, rateVars,
          loginVars>>

----------------------------------------------------------------------------
(* Bounds and identifier universes *)

MaxSaves == 3

None == "none"
Keep == "keep"      \* a path a findByIdAndUpdate command does not mention

DistrictIds == {"D1", "D2"}
SectorIds   == {"S1"}
CellIds     == {"C1"}
GroupIds    == {"G1"}
UserIds     == {"U1", "U2"}
Codes       == {"KGL", "HUY"}

\* References a caller can supply: the ids above, and an ObjectId that
\* matches no Sector.
SectorRefs == SectorIds \cup {"S2"}

\* The sector and district a caller passes to IntoreGroup.create.
GroupSectorInputs   == {"S1", None}
GroupDistrictInputs == {"D1", None}

\* District codes are interchangeable, so the first district's code is fixed.
CodeChoices(id) == IF id = "D1" THEN {"KGL"} ELSE Codes

Roles == {"super_admin", "district_admin", "sector_admin", "cell_admin", "member", "public"}

----------------------------------------------------------------------------
(* Documents *)

NoDistrict == [exists |-> FALSE, code |-> None, admin |-> None]
NoSector   == [exists |-> FALSE, district |-> None, admin |-> None]
NoCell     == [exists |-> FALSE, sector |-> None, district |-> None, admin |-> None]
NoGroup    == [exists |-> FALSE, cell |-> None, sector |-> None, district |-> None, leader |-> None]

\* A user as User.create stores it when only the required paths of a
\* super_admin are given: no hierarchy, no intoreGroup.
NewUser == [exists |-> TRUE, role |-> "super_admin", status |-> "active",
            district |-> None, sector |-> None, cell |-> None, intoreGroup |-> None]

\* Model.findById: the document, or null (a document with exists = FALSE).
FindDistrict(id) == IF id \in DistrictIds THEN districts[id] ELSE NoDistrict
FindSector(id)   == IF id \in SectorIds THEN sectors[id] ELSE NoSector
FindCell(id)     == IF id \in CellIds THEN cells[id] ELSE NoCell

----------------------------------------------------------------------------
(* utils/validation.js: validateHierarchy *)

MsgDistrictRequired == "District admin must be assigned to a district."
MsgDistrictInvalid  == "Invalid district ID."
MsgSectorRequired   == "Sector admin must be assigned to a district and sector."
MsgSectorInvalid    == "Invalid sector or sector does not belong to the specified district."
MsgCellRequired     == "Cell admin must be assigned to a district, sector, and cell."
MsgMemberRequired   == "Member must be assigned to a district, sector, and cell."
MsgCellInvalid      == "Invalid cell or cell does not belong to the specified sector and district."

districtAdminErrorsNoLookup(districtId) ==
    IF districtId = None THEN <<MsgDistrictRequired>> ELSE <<>>

districtAdminErrors(districtId) ==
    IF districtId = None THEN <<MsgDistrictRequired>>
    ELSE IF ~FindDistrict(districtId).exists THEN <<MsgDistrictInvalid>>
    ELSE <<>>

sectorAdminErrorsNoDistrictCheck(districtId, sectorId) ==
    IF districtId = None \/ sectorId = None THEN <<MsgSectorRequired>>
    ELSE IF ~FindSector(sectorId).exists THEN <<MsgSectorInvalid>>
    ELSE <<>>

sectorAdminErrors(districtId, sectorId) ==
    IF districtId = None \/ sectorId = None THEN <<MsgSectorRequired>>
    ELSE LET sector == FindSector(sectorId) IN
         IF ~sector.exists \/ sector.district # districtId THEN <<MsgSectorInvalid>>
         ELSE <<>>

cellAdminErrors(districtId, sectorId, cellId) ==
    IF districtId = None \/ sectorId = None \/ cellId = None THEN <<MsgCellRequired>>
    ELSE LET cell == FindCell(cellId) IN
         IF ~cell.exists \/ cell.sector # sectorId \/ cell.district # districtId
         THEN <<MsgCellInvalid>>
         ELSE <<>>

memberErrorsNoDistrictCheck(districtId, sectorId, cellId) ==
    IF districtId = None \/ sectorId = None \/ cellId = None THEN <<MsgMemberRequired>>
    ELSE LET cell == FindCell(cellId) IN
         IF ~cell.exists \/ cell.sector # sectorId THEN <<MsgCellInvalid>>
         ELSE <<>>

memberErrors(districtId, sectorId, cellId) ==
    IF districtId = None \/ sectorId = None \/ cellId = None THEN <<MsgMemberRequired>>
    ELSE LET cell == FindCell(cellId) IN
         IF ~cell.exists \/ cell.sector # sectorId \/ cell.district # districtId
         THEN <<MsgCellInvalid>>
         ELSE <<>>

validateHierarchy(role, districtId, sectorId, cellId) ==
    LET errors ==
          IF role = "super_admin" THEN <<>>
          ELSE (IF role = "district_admin" THEN districtAdminErrors(districtId) ELSE <<>>)
            \o (IF role = "sector_admin" THEN sectorAdminErrors(districtId, sectorId) ELSE <<>>)
            \o (IF role = "cell_admin" THEN cellAdminErrors(districtId, sectorId, cellId) ELSE <<>>)
            \o (IF role = "member" THEN memberErrors(districtId, sectorId, cellId) ELSE <<>>)
    IN [isValid |-> Len(errors) = 0, errors |-> errors]

\* The call reaches one of the findById lookups: the ids its role needs are
\* all given.
performsLookup(role, districtId, sectorId, cellId) ==
    CASE role = "district_admin" -> districtId # None
      [] role = "sector_admin" -> districtId # None /\ sectorId # None
      [] role \in {"cell_admin", "member"} ->
            districtId # None /\ sectorId # None /\ cellId # None
      [] OTHER -> FALSE

\* A call of validateHierarchy against the current collections.
\* lookupOk: the findById the call makes succeeds; a lookup fails on an id
\* that is no ObjectId (CastError) or on a database error, and the awaited
\* rejection leaves the function, which has no try/catch.
ValidateHierarchyCall(role, districtId, sectorId, cellId, lookupOk) ==
    /\ (~lookupOk) => performsLookup(role, districtId, sectorId, cellId)
    /\ last' = [op |-> "validateHierarchy", role |-> role, districtId |-> districtId,
                sectorId |-> sectorId, cellId |-> cellId,
                settled |-> IF lookupOk THEN "fulfilled" ELSE "rejected",
                result |-> IF lookupOk
                           THEN validateHierarchy(role, districtId, sectorId, cellId)
                           ELSE [isValid |-> FALSE, errors |-> <<>>]]
    /\ UNCHANGED <<loginVars, rateVars, audit, districts, sectors, cells, groups, users, pending, nsaves>>

----------------------------------------------------------------------------
(* Mongoose document.save(): the built-in validateBeforeSave hook runs      *)
(* first (required paths), then the schema's pre('save') hooks in the order *)
(* they were registered, then the insert / update reaches the collection,   *)
(* where a unique index can still refuse it.                                *)

\* A findByIdAndUpdate(userId, {...}) command: the paths it sets.
SetPaths(role, district, sector, cell, intoreGroup) ==
    [role |-> role, district |-> district, sector |-> sector, cell |-> cell,
     intoreGroup |-> intoreGroup]

\* document.isModified('admin'): a path given to the constructor of a new
\* document, or set to a value different from the loaded one.
isModified(isNew, old, new) == isNew \/ old # new

\* The command as it travels: who issued it, and what that save persisted.
InFlight(cmds, kind, id, saved) ==
    { [user |-> c.user, set |-> c.set, kind |-> kind, id |-> id, saved |-> saved] : c \in cmds }

Saved(ok, district, sector) == [ok |-> ok, district |-> district, sector |-> sector]

SaveResult(kind, id, isNew, modified, doc, status) ==
    [op |-> "save", kind |-> kind, id |-> id, isNew |-> isNew, modified |-> modified,
     doc |-> doc, status |-> status]

(* ---- District ---- *)

districtAdminCascadeRoleOnly(id, doc, adminModified) ==
    IF adminModified /\ doc.admin # None
    THEN { [user |-> doc.admin,
            set |-> SetPaths("district_admin", Keep, Keep, Keep, Keep)] }
    ELSE {}

\* districtSchema.pre('save'): admin cascade
districtAdminCascade(id, doc, adminModified) ==
    IF adminModified /\ doc.admin # None
    THEN { [user |-> doc.admin,
            set |-> SetPaths("district_admin", id, Keep, Keep, Keep)] }
    ELSE {}

\* unique index on District.code (District.name is unique the same way)
districtDuplicateKey(id, doc) ==
    \E o \in DistrictIds \ {id} : districts[o].exists /\ districts[o].code = doc.code

SaveDistrictRevokesPrior(id, isNew, doc) ==
    LET modified == isModified(isNew, districts[id].admin, doc.admin)
        prior == districts[id].admin
        revoke == IF modified /\ prior # None
                  THEN { [user |-> prior, set |-> SetPaths("member", Keep, Keep, Keep, Keep)] }
                  ELSE {}
        cmds == districtAdminCascade(id, doc, modified) \cup revoke
        dup  == districtDuplicateKey(id, doc)
    IN /\ nsaves < MaxSaves
       /\ nsaves' = nsaves + 1
       /\ pending' = pending \cup InFlight(cmds, "district", id, Saved(~dup, None, None))
       /\ districts' = IF dup THEN districts ELSE [districts EXCEPT ![id] = doc]
       /\ last' = SaveResult("district", id, isNew, modified, doc, IF dup THEN "DuplicateKey" ELSE "ok")
       /\ UNCHANGED <<loginVars, rateVars, audit, sectors, cells, groups, users>>

SaveDistrict(id, isNew, doc) ==
    LET modified == isModified(isNew, districts[id].admin, doc.admin)
        cmds == districtAdminCascade(id, doc, modified)
        dup  == districtDuplicateKey(id, doc)
    IN /\ nsaves < MaxSaves
       /\ nsaves' = nsaves + 1
       /\ pending' = pending \cup InFlight(cmds, "district", id, Saved(~dup, None, None))
       /\ districts' = IF dup THEN districts ELSE [districts EXCEPT ![id] = doc]
       /\ last' = SaveResult("district", id, isNew, modified, doc, IF dup THEN "DuplicateKey" ELSE "ok")
       /\ UNCHANGED <<loginVars, rateVars, audit, sectors, cells, groups, users>>

CreateDistrict(id, code, admin) ==
    /\ ~districts[id].exists
    /\ SaveDistrict(id, TRUE, [exists |-> TRUE, code |-> code, admin |-> admin])

UpdateDistrict(id, admin) ==
    /\ districts[id].exists
    /\ SaveDistrict(id, FALSE, [districts[id] EXCEPT !.admin = admin])

(* ---- Sector ---- *)

\* sectorSchema: district is required
sectorValidationErrors(doc) ==
    IF doc.district = None THEN {"District is required"} ELSE {}

sectorAdminCascadeSectorOnly(id, doc, adminModified) ==
    IF adminModified /\ doc.admin # None
    THEN { [user |-> doc.admin,
            set |-> SetPaths("sector_admin", Keep, id, Keep, Keep)] }
    ELSE {}

\* sectorSchema.pre('save'): admin cascade
sectorAdminCascade(id, doc, adminModified) ==
    IF adminModified /\ doc.admin # None
    THEN { [user |-> doc.admin,
            set |-> SetPaths("sector_admin", doc.district, id, Keep, Keep)] }
    ELSE {}

SaveSector(id, isNew, doc) ==
    LET invalid == sectorValidationErrors(doc) # {}
        modified == isModified(isNew, sectors[id].admin, doc.admin)
        cmds == sectorAdminCascade(id, doc, modified)
    IN /\ nsaves < MaxSaves
       /\ nsaves' = nsaves + 1
       /\ pending' = IF invalid THEN pending
                     ELSE pending \cup InFlight(cmds, "sector", id, Saved(TRUE, doc.district, None))
       /\ sectors' = IF invalid THEN sectors ELSE [sectors EXCEPT ![id] = doc]
       /\ last' = SaveResult("sector", id, isNew, modified, doc, IF invalid THEN "ValidationError" ELSE "ok")
       /\ UNCHANGED <<loginVars, rateVars, audit, districts, cells, groups, users>>

CreateSector(id, district, admin) ==
    /\ ~sectors[id].exists
    /\ SaveSector(id, TRUE, [exists |-> TRUE, district |-> district, admin |-> admin])

UpdateSector(id, district, admin) ==
    /\ sectors[id].exists
    /\ SaveSector(id, FALSE, [exists |-> TRUE, district |-> district, admin |-> admin])

(* ---- Cell ---- *)

\* cellSchema: sector and district are required
cellValidationErrors(doc) ==
    (IF doc.sector = None THEN {"Sector is required"} ELSE {})
      \cup (IF doc.district = None THEN {"District is required"} ELSE {})

\* cellSchema.pre('save'), first hook: admin cascade
cellAdminCascade(id, doc, adminModified) ==
    IF adminModified /\ doc.admin # None
    THEN { [user |-> doc.admin,
            set |-> SetPaths("cell_admin", doc.district, doc.sector, id, Keep)] }
    ELSE {}

\* cellSchema.pre('save'), second hook: district auto-fill from the sector
cellAutoFill(doc, isNew) ==
    IF isNew /\ doc.sector # None
    THEN LET sector == FindSector(doc.sector) IN
         IF sector.exists THEN [doc EXCEPT !.district = sector.district] ELSE doc
    ELSE doc

SaveCell(id, isNew, doc) ==
    LET invalid == cellValidationErrors(doc) # {}
        modified == isModified(isNew, cells[id].admin, doc.admin)
        cmds == cellAdminCascade(id, doc, modified)
        stored == cellAutoFill(doc, isNew)
    IN /\ nsaves < MaxSaves
       /\ nsaves' = nsaves + 1
       /\ pending' = IF invalid THEN pending
                     ELSE pending \cup InFlight(cmds, "cell", id,
                                                Saved(TRUE, stored.district, stored.sector))
       /\ cells' = IF invalid THEN cells ELSE [cells EXCEPT ![id] = stored]
       /\ last' = SaveResult("cell", id, isNew, modified, doc, IF invalid THEN "ValidationError" ELSE "ok")
       /\ UNCHANGED <<loginVars, rateVars, audit, districts, sectors, groups, users>>

CreateCell(id, sector, district, admin) ==
    /\ ~cells[id].exists
    /\ SaveCell(id, TRUE, [exists |-> TRUE, sector |-> sector, district |-> district,
                           admin |-> admin])

UpdateCell(id, sector, district, admin) ==
    /\ cells[id].exists
    /\ SaveCell(id, FALSE, [exists |-> TRUE, sector |-> sector, district |-> district,
                            admin |-> admin])

(* ---- IntoreGroup ---- *)

\* intoreGroupSchema: cell, sector and district are required
groupValidationErrors(doc) ==
    (IF doc.cell = None THEN {"Cell is required"} ELSE {})
      \cup (IF doc.sector = None THEN {"Sector is required"} ELSE {})
      \cup (IF doc.district = None THEN {"District is required"} ELSE {})

groupLeaderCascadeSetsRole(id, doc, leaderModified) ==
    IF leaderModified /\ doc.leader # None
    THEN { [user |-> doc.leader, set |-> SetPaths("member", Keep, Keep, Keep, id)] }
    ELSE {}

\* intoreGroupSchema.pre('save'), first hook: leader cascade
groupLeaderCascade(id, doc, leaderModified) ==
    IF leaderModified /\ doc.leader # None
    THEN { [user |-> doc.leader, set |-> SetPaths(Keep, Keep, Keep, Keep, id)] }
    ELSE {}

groupAutoFillSectorOnly(doc, isNew) ==
    IF isNew /\ doc.cell # None
    THEN LET cell == FindCell(doc.cell) IN
         IF cell.exists THEN [doc EXCEPT !.sector = cell.sector] ELSE doc
    ELSE doc

\* intoreGroupSchema.pre('save'), second hook: sector and district from the cell
groupAutoFill(doc, isNew) ==
    IF isNew /\ doc.cell # None
    THEN LET cell == FindCell(doc.cell) IN
         IF cell.exists
         THEN [doc EXCEPT !.sector = cell.sector, !.district = cell.district]
         ELSE doc
    ELSE doc

SaveGroup(id, isNew, doc) ==
    LET invalid == groupValidationErrors(doc) # {}
        modified == isModified(isNew, groups[id].leader, doc.leader)
        cmds == groupLeaderCascade(id, doc, modified)
        stored == groupAutoFill(doc, isNew)
    IN /\ nsaves < MaxSaves
       /\ nsaves' = nsaves + 1
       /\ pending' = IF invalid THEN pending
                     ELSE pending \cup InFlight(cmds, "group", id,
                                                Saved(TRUE, stored.district, stored.sector))
       /\ groups' = IF invalid THEN groups ELSE [groups EXCEPT ![id] = stored]
       /\ last' = SaveResult("group", id, isNew, modified, doc, IF invalid THEN "ValidationError" ELSE "ok")
       /\ UNCHANGED <<loginVars, rateVars, audit, districts, sectors, cells, users>>

CreateGroup(id, cell, sector, district, leader) ==
    /\ ~groups[id].exists
    /\ SaveGroup(id, TRUE, [exists |-> TRUE, cell |-> cell, sector |-> sector,
                            district |-> district, leader |-> leader])

UpdateGroup(id, leader) ==
    /\ groups[id].exists
    /\ SaveGroup(id, FALSE, [groups[id] EXCEPT !.leader = leader])

(* ---- the User updates reaching the store ---- *)

ApplySetTogglesGroup(doc, set) ==
    [exists |-> TRUE, status |-> doc.status,
     role        |-> IF set.role = Keep THEN doc.role ELSE set.role,
     district    |-> IF set.district = Keep THEN doc.district ELSE set.district,
     sector      |-> IF set.sector = Keep THEN doc.sector ELSE set.sector,
     cell        |-> IF set.cell = Keep THEN doc.cell ELSE set.cell,
     intoreGroup |-> IF set.intoreGroup = Keep THEN doc.intoreGroup
                     ELSE IF set.intoreGroup = doc.intoreGroup THEN None
                     ELSE set.intoreGroup]

\* findByIdAndUpdate(id, {path: value, ...}): a $set of the given paths
ApplySet(doc, set) ==
    [exists |-> TRUE, status |-> doc.status,
     role        |-> IF set.role = Keep THEN doc.role ELSE set.role,
     district    |-> IF set.district = Keep THEN doc.district ELSE set.district,
     sector      |-> IF set.sector = Keep THEN doc.sector ELSE set.sector,
     cell        |-> IF set.cell = Keep THEN doc.cell ELSE set.cell,
     intoreGroup |-> IF set.intoreGroup = Keep THEN doc.intoreGroup ELSE set.intoreGroup]

\* One issued findByIdAndUpdate reaches the store; commands of different
\* saves are independent and are applied in any order.
ApplyUpdate(m) ==
    /\ m \in pending
    /\ pending' = pending \ {m}
    /\ users' = IF m.user \in UserIds /\ users[m.user].exists
                THEN [users EXCEPT ![m.user] = ApplySet(@, m.set)]
                ELSE users
    /\ last' = [op |-> "applyUpdate", m |-> m]
    /\ UNCHANGED <<loginVars, rateVars, audit, districts, sectors, cells, groups, nsaves>>

----------------------------------------------------------------------------
(* Specifications *)

Logins == {"r1", "r2"}

NoCopy == [loaded |-> FALSE, loginAttempts |-> 0, lockUntil |-> 0]

\* A user who never failed a login (loginAttempts 0, lockUntil unset, written
\* 0) and no login request under way.
NoLogins ==
    /\ account = [loginAttempts |-> 0, lockUntil |-> 0]
    /\ loaded = [r \in Logins |-> NoCopy]
    /\ calls = [incs |-> 0, stale |-> FALSE, reset |-> FALSE, fifthAt |-> 0,
                unlocked |-> FALSE]

\* No request has reached a rate-limited route: the Map is empty.
RateLimiterUnused ==
    /\ now = 0
    /\ limits = [windowMs |-> 2, max |-> 1]
    /\ requests = [key \in {} |-> <<>>]
    /\ admitted = [key \in {} |-> <<>>]
    /\ denied = [key \in {} |-> {}]

Init ==
    /\ districts = [d \in DistrictIds |-> NoDistrict]
    /\ sectors = [s \in SectorIds |-> NoSector]
    /\ cells = [c \in CellIds |-> NoCell]
    /\ groups = [g \in GroupIds |-> NoGroup]
    /\ users = [u \in UserIds |-> NewUser]
    /\ pending = {}
    /\ last = [op |-> "init"]
    /\ nsaves = 0
    /\ audit = <<>>
    /\ RateLimiterUnused
    /\ NoLogins

Next ==
    \/ \E id \in DistrictIds, a \in UserIds \cup {None} :
          \E code \in CodeChoices(id) : CreateDistrict(id, code, a)
    \/ \E id \in DistrictIds, a \in UserIds \cup {None} : UpdateDistrict(id, a)
    \/ \E id \in SectorIds, d \in DistrictIds \cup {None}, a \in UserIds \cup {None} : CreateSector(id, d, a)
    \/ \E id \in SectorIds, d \in DistrictIds \cup {None}, a \in UserIds \cup {None} : UpdateSector(id, d, a)
    \/ \E id \in CellIds, s \in SectorRefs \cup {None}, d \in DistrictIds \cup {None},
          a \in UserIds \cup {None} : CreateCell(id, s, d, a)
    \/ \E id \in CellIds, s \in SectorRefs \cup {None}, d \in DistrictIds \cup {None},
          a \in UserIds \cup {None} : UpdateCell(id, s, d, a)
    \/ \E id \in GroupIds, c \in CellIds \cup {None}, s \in GroupSectorInputs,
          d \in GroupDistrictInputs, a \in UserIds \cup {None} : CreateGroup(id, c, s, d, a)
    \/ \E id \in GroupIds, a \in UserIds \cup {None} : UpdateGroup(id, a)
    \/ \E m \in pending : ApplyUpdate(m)

Spec == Init /\ [][Next]_vars

\* validateHierarchy as a function of the collections: every shape of
\* District / Sector / Cell collection the saves above can produce, and
\* every role and id triple.
InitValidate ==
    /\ districts \in [DistrictIds -> {NoDistrict, [exists |-> TRUE, code |-> "KGL", admin |-> None]}]
    /\ sectors \in [SectorIds -> {NoSector} \cup
                      { [exists |-> TRUE, district |-> d, admin |-> None] : d \in DistrictIds }]
    /\ cells \in [CellIds -> {NoCell} \cup
                      { [exists |-> TRUE, sector |-> s, district |-> d, admin |-> None] :
                            s \in SectorRefs, d \in DistrictIds }]
    /\ groups = [g \in GroupIds |-> NoGroup]
    /\ users = [u \in UserIds |-> NewUser]
    /\ pending = {}
    /\ last = [op |-> "init"]
    /\ nsaves = 0
    /\ audit = <<>>
    /\ RateLimiterUnused
    /\ NoLogins

NextValidate ==
    \E role \in Roles, d \in DistrictIds \cup {None}, s \in SectorRefs \cup {None},
       c \in CellIds \cup {None}, lookupOk \in BOOLEAN :
        ValidateHierarchyCall(role, d, s, c, lookupOk)

SpecValidate == InitValidate /\ [][NextValidate]_vars

----------------------------------------------------------------------------
(* Hierarchy Validator: claims checked under SpecValidate *)

Called == last.op = "validateHierarchy" /\ last.settled = "fulfilled"

\* The ids a role needs, as the claim lists them.
C1_RequiredPresent(role, d, s, c) ==
    CASE role = "district_admin" -> d # None
      [] role = "sector_admin" -> d # None /\ s # None
      [] role \in {"cell_admin", "member"} -> d # None /\ s # None /\ c # None
      [] OTHER -> TRUE

\* Every present reference exists and its parent chain matches.
C1_PresentChainsMatch(d, s, c) ==
    /\ d # None => FindDistrict(d).exists
    /\ s # None => FindSector(s).exists /\ FindSector(s).district = d
    /\ c # None => FindCell(c).exists /\ FindCell(c).sector = s /\ FindCell(c).district = d

\* C1 as stated: validateHierarchy is valid iff the ids the role requires are
\* present and every present reference (required by the role or not) exists
\* with a matching parent chain.
C1_ValidIffAllPresentChainsMatch ==
    Called =>
        (last.result.isValid <=>
            /\ C1_RequiredPresent(last.role, last.districtId, last.sectorId, last.cellId)
            /\ C1_PresentChainsMatch(last.districtId, last.sectorId, last.cellId))

\* The rule validateHierarchy applies for a role: only the deepest reference
\* the role requires is looked up, and only its own parent fields are compared.
C1_RoleRule(role, d, s, c) ==
    CASE role = "district_admin" -> d # None /\ FindDistrict(d).exists
      [] role = "sector_admin" ->
            /\ d # None /\ s # None
            /\ FindSector(s).exists /\ FindSector(s).district = d
      [] role \in {"cell_admin", "member"} ->
            /\ d # None /\ s # None /\ c # None
            /\ FindCell(c).exists /\ FindCell(c).sector = s /\ FindCell(c).district = d
      [] OTHER -> TRUE

\* C1 amended: for every role and triple, validateHierarchy is valid iff the
\* ids the role requires are present and the deepest required reference exists
\* with parent fields equal to the supplied ids; super_admin and public are
\* always valid, and references the role does not require are not examined.
C1_ValidIffRoleRule ==
    Called =>
        (last.result.isValid <=>
            C1_RoleRule(last.role, last.districtId, last.sectorId, last.cellId))

\* C1 witness: a district_admin call naming a district that matches no
\* District was answered invalid.
C1_Witness ==
    /\ Called
    /\ last.role = "district_admin"
    /\ last.districtId # None
    /\ ~FindDistrict(last.districtId).exists
    /\ ~last.result.isValid

\* C2: a sector_admin call is valid exactly when district and sector are both
\* present, the sector exists and sector.district is the given district; a
\* sector of another district is answered invalid with the sector/district
\* mismatch message as the only error.
C2_SectorAdminRule ==
    (Called /\ last.role = "sector_admin") =>
        LET d == last.districtId
            s == last.sectorId
        IN /\ last.result.isValid <=>
                (d # None /\ s # None /\ FindSector(s).exists /\ FindSector(s).district = d)
           /\ (d # None /\ s # None /\ FindSector(s).exists /\ FindSector(s).district # d)
                => (~last.result.isValid /\ last.result.errors = <<MsgSectorInvalid>>)

\* C2 witness: sector_admin called with a district other than the existing
\* sector's own district, answered invalid.
C2_Witness ==
    /\ Called
    /\ last.role = "sector_admin"
    /\ last.districtId # None /\ last.sectorId # None
    /\ FindSector(last.sectorId).exists
    /\ FindSector(last.sectorId).district # last.districtId
    /\ ~last.result.isValid

\* C3: for cell_admin and for member the call is valid exactly when all three
\* ids are present, the cell exists, cell.sector is the given sector and
\* cell.district the given district; both roles answer the same for the triple.
C3_CellAdminAndMemberRule ==
    (Called /\ last.role \in {"cell_admin", "member"}) =>
        LET d == last.districtId
            s == last.sectorId
            c == last.cellId
        IN /\ last.result.isValid <=>
                /\ d # None /\ s # None /\ c # None
                /\ FindCell(c).exists /\ FindCell(c).sector = s /\ FindCell(c).district = d
           /\ validateHierarchy("cell_admin", d, s, c).isValid
                = validateHierarchy("member", d, s, c).isValid

\* C3 witness: a member call with the chain of an existing cell, answered valid.
C3_Witness ==
    /\ Called
    /\ last.role = "member"
    /\ last.cellId # None
    /\ FindCell(last.cellId).exists
    /\ last.result.isValid

----------------------------------------------------------------------------
(* Role-Cascade Synchronizer: claims checked under Spec *)

\* The latest step applied a User update issued by a save of this kind.
Applied(kind) == last.op = "applyUpdate" /\ last.m.kind = kind

\* The latest step was a save() of a new document of this kind.
Created(kind) == last.op = "save" /\ last.kind = kind /\ last.isNew

\* The update commands in flight that the save of document id issued.
IssuedBy(kind, id) == { m \in pending : m.kind = kind /\ m.id = id }

\* C4 as stated: once the update triggered by a Cell save that set admin = u
\* has been applied, u.role is cell_admin and u.hierarchy carries the
\* persisted Cell's district, sector and id, also when the district was
\* auto-filled from the sector in that save.
C4_CellAdminGetsPersistedChain ==
    (Applied("cell") /\ last.m.saved.ok) =>
        LET u == users[last.m.user] IN
        /\ u.role = "cell_admin"
        /\ u.district = last.m.saved.district
        /\ u.sector = last.m.saved.sector
        /\ u.cell = last.m.id

\* C5: once the update triggered by a District save that changed admin to an
\* existing user u has been applied, u.role is district_admin and
\* u.hierarchy.district is the district's id; and every such save issues
\* that update.
C5_DistrictAdminCascade ==
    /\ Applied("district") =>
          LET u == users[last.m.user] IN
          /\ u.role = "district_admin"
          /\ u.district = last.m.id
    /\ (last.op = "save" /\ last.kind = "district" /\ last.modified /\ last.doc.admin # None) =>
          \E m \in IssuedBy("district", last.id) : m.user = last.doc.admin

\* C5 witness: a user who was cell_admin of a cell has been made
\* district_admin by an applied District cascade.
C5_Witness ==
    /\ Applied("district")
    /\ users[last.m.user].role = "district_admin"
    /\ users[last.m.user].district = last.m.id
    /\ users[last.m.user].cell # None
    /\ districts[last.m.id].exists
    /\ districts[last.m.id].admin = last.m.user

\* C6: once the update triggered by a Sector save that changed admin to an
\* existing user u has been applied, u.role is sector_admin,
\* u.hierarchy.district is the sector's district as that save persisted it
\* and u.hierarchy.sector is the sector's id; every such save issues that
\* update.
C6_SectorAdminCascade ==
    /\ Applied("sector") =>
          LET u == users[last.m.user] IN
          /\ u.role = "sector_admin"
          /\ u.district = last.m.saved.district
          /\ u.sector = last.m.id
    /\ (last.op = "save" /\ last.kind = "sector" /\ last.status = "ok"
          /\ last.modified /\ last.doc.admin # None) =>
          \E m \in IssuedBy("sector", last.id) :
              m.user = last.doc.admin /\ m.saved.district = sectors[last.id].district

\* C6 witness: an applied Sector cascade, the sector still as that save
\* stored it.
C6_Witness ==
    /\ Applied("sector")
    /\ sectors[last.m.id].exists
    /\ sectors[last.m.id].admin = last.m.user
    /\ sectors[last.m.id].district = last.m.saved.district
    /\ users[last.m.user].role = "sector_admin"
    /\ users[last.m.user].sector = last.m.id

\* C7: the update issued by an IntoreGroup save whose leader changed to u
\* sets u.intoreGroup to the group's id and leaves u.role and u.hierarchy as
\* they were; no other user changes, and the save step itself changes no user.
C7_LeaderCascadeFrame ==
    [][ /\ \A m \in pending :
              (m.kind = "group" /\ ApplyUpdate(m)) =>
                  /\ users'[m.user].intoreGroup = m.id
                  /\ users'[m.user].role = users[m.user].role
                  /\ users'[m.user].district = users[m.user].district
                  /\ users'[m.user].sector = users[m.user].sector
                  /\ users'[m.user].cell = users[m.user].cell
                  /\ \A o \in UserIds \ {m.user} : users'[o] = users[o]
        /\ (last'.op = "save" /\ last'.kind = "group") =>
              /\ users' = users
              /\ (last'.status = "ok" /\ last'.modified /\ last'.doc.leader # None) =>
                    \E m \in pending' : /\ m.kind = "group" /\ m.id = last'.id
                                        /\ m.user = last'.doc.leader
      ]_vars

\* C7 witness: a user with a hierarchy and a role given by another cascade
\* has had the leader update applied.
C7_Witness ==
    /\ Applied("group")
    /\ users[last.m.user].intoreGroup = last.m.id
    /\ users[last.m.user].role = "cell_admin"
    /\ groups[last.m.id].leader = last.m.user

\* C8 as stated: creating a Cell with a reference to an existing Sector and
\* no district succeeds and stores the sector's district on the Cell.
C8_CellCreatedWithoutDistrict ==
    (Created("cell") /\ last.doc.district = None /\ last.doc.sector # None
        /\ FindSector(last.doc.sector).exists) =>
        /\ last.status = "ok"
        /\ cells[last.id].exists
        /\ cells[last.id].district = FindSector(last.doc.sector).district

C10_ParentMissing ==
    \/ Created("cell") /\ last.doc.sector # None /\ ~FindSector(last.doc.sector).exists
    \/ Created("group") /\ last.doc.cell # None /\ ~FindCell(last.doc.cell).exists

\* C10 as stated: a create whose parent reference matches no document is
\* rejected, stores nothing and issues no User update.
C10_MissingParentRejected ==
    C10_ParentMissing =>
        /\ last.status # "ok"
        /\ IF last.kind = "cell" THEN ~cells[last.id].exists ELSE ~groups[last.id].exists
        /\ IssuedBy(last.kind, last.id) = {}

\* The latest step was a successful save() of this kind that changed the
\* admin to a user.
AdminAssigned(kind) ==
    /\ last.op = "save" /\ last.kind = kind /\ last.status = "ok"
    /\ last.modified /\ last.doc.admin # None

\* C11 as stated: a save that triggers a role cascade is all-or-nothing; the
\* User update of a save is applied only if that save's entity write was.
C11_CascadeAllOrNothing ==
    \A kind \in {"district", "sector", "cell", "group"} :
        Applied(kind) => last.m.saved.ok

\* C12 as stated: when the save that set Cell.admin = u has completed, a read
\* of u returns role cell_admin and the Cell's own district, sector and id.
C12_ReadAfterCellSave ==
    AdminAssigned("cell") =>
        LET u == users[last.doc.admin] IN
        /\ u.role = "cell_admin"
        /\ u.district = cells[last.id].district
        /\ u.sector = cells[last.id].sector
        /\ u.cell = last.id

\* C13 as stated: every stored Cell names an existing Sector and carries that
\* sector's district.
C13_CellDistrictIsSectorDistrict ==
    \A c \in CellIds :
        cells[c].exists =>
            /\ FindSector(cells[c].sector).exists
            /\ cells[c].district = FindSector(cells[c].sector).district

\* C14 as stated: each User's hierarchy is one coherent path: a set sector
\* lies in hierarchy.district, a set cell lies in hierarchy.sector and
\* hierarchy.district.
C14_UserHierarchyIsOnePath ==
    \A u \in UserIds :
        /\ (users[u].sector # None /\ FindSector(users[u].sector).exists) =>
              FindSector(users[u].sector).district = users[u].district
        /\ (users[u].cell # None /\ FindCell(users[u].cell).exists) =>
              /\ FindCell(users[u].cell).sector = users[u].sector
              /\ FindCell(users[u].cell).district = users[u].district

\* C15: the cascade is idempotent: once the update a District, Sector, Cell
\* or IntoreGroup save issued has been applied, applying the same update
\* again leaves the User's role, hierarchy and intoreGroup as they are.
C15_CascadeIdempotent ==
    \A kind \in {"district", "sector", "cell", "group"} :
        Applied(kind) =>
            ApplySet(users[last.m.user], last.m.set) = users[last.m.user]

\* C15 witness: a leader update was applied to a user whose role and
\* hierarchy an earlier cascade had set.
C15_Witness ==
    /\ Applied("group")
    /\ users[last.m.user].intoreGroup = last.m.id
    /\ users[last.m.user].role # "super_admin"
    /\ users[last.m.user].district # None

\* The admin stored on a document before the step.
PriorAdmin(kind, id) ==
    CASE kind = "district" -> districts[id].admin
      [] kind = "sector" -> sectors[id].admin
      [] kind = "cell" -> cells[id].admin
      [] OTHER -> None

\* C16: when a save replaces the admin of a District, Sector or Cell by
\* another user, or clears it, the prior admin's User record is left as it
\* is: the step changes no user, no update it issues targets the prior
\* admin, and an applied update changes only the user it was issued for.
C16_PriorAdminUntouched ==
    [][ /\ (last'.op = "save" /\ last'.kind \in {"district", "sector", "cell"}
              /\ ~last'.isNew /\ nsaves' = nsaves + 1) =>
              LET prior == PriorAdmin(last'.kind, last'.id) IN
              (prior # None /\ prior # last'.doc.admin) =>
                  /\ users'[prior] = users[prior]
                  /\ \A m \in pending' \ pending : m.user # prior
        /\ \A m \in pending :
              ApplyUpdate(m) => \A o \in UserIds \ {m.user} : users'[o] = users[o]
      ]_vars

\* C16 witness: a District's admin U1 was replaced by U2 and U1 is still
\* district_admin of that district.
C16_Witness ==
    /\ last.op = "save" /\ last.kind = "district" /\ ~last.isNew
    /\ last.status = "ok" /\ last.modified
    /\ last.doc.admin = "U2"
    /\ districts[last.id].admin = "U2"
    /\ users["U1"].role = "district_admin"
    /\ users["U1"].district = last.id

(***************************************************************************)
(* AuditLog model: schema validation, logAction and the query statics.     *)
(***************************************************************************)
MaxAudit == 2

NoUser == [NewUser EXCEPT !.exists = FALSE]

AuditResourceTypes ==
    {"user", "district", "sector", "cell", "intore_group", "activity", "media",
     "attendance", "chat", "notification", "report", "cultural_content"}

AuditSeverities == {"info", "warning", "error", "critical"}

\* Document handed to this.create() by logAction; before, after and changes
\* are null at every call site modelled here.
AuditDoc(action, resourceType, resourceId, performedBy, metadata, severity, description) ==
    [action |-> action, resourceType |-> resourceType, resourceId |-> resourceId,
     performedBy |-> performedBy, metadata |-> metadata, severity |-> severity,
     description |-> description]

\* Paths of the document that fail schema validation.
auditValidationErrors(doc) ==
    { path \in {"action", "resourceType", "resourceId", "performedBy", "severity"} :
        CASE path = "action" -> doc.action = None
          [] path = "resourceType" -> doc.resourceType \notin AuditResourceTypes
          [] path = "resourceId" -> doc.resourceId = None
          [] path = "performedBy" -> doc.performedBy = None
          [] path = "severity" -> doc.severity \notin AuditSeverities }

\* The promise returned by logAction resolves: the document is valid and the
\* database accepted the insert.
logActionResolves(doc, storeOk) == auditValidationErrors(doc) = {} /\ storeOk

logActionOverwritesLatest(log, doc, storeOk) ==
    IF logActionResolves(doc, storeOk)
    THEN IF Len(log) > 0 /\ log[Len(log)].performedBy = doc.performedBy
         THEN [log EXCEPT ![Len(log)] = doc]
         ELSE Append(log, doc)
    ELSE log

\* logAction = this.create(doc): the collection after the call.
logAction(log, doc, storeOk) ==
    IF logActionResolves(doc, storeOk) THEN Append(log, doc) ELSE log

Reverse(s) == [i \in 1..Len(s) |-> s[Len(s) + 1 - i]]

\* find(filter).sort({performedAt: -1}).limit(limit)
FindLatest(Match(_), limit) ==
    LET found == Reverse(SelectSeq(audit, Match))
    IN SubSeq(found, 1, IF Len(found) < limit THEN Len(found) ELSE limit)

getByUser(userId, limit) == FindLatest(LAMBDA r : r.performedBy = userId, limit)

getByResource(resourceType, resourceId, limit) ==
    FindLatest(LAMBDA r : r.resourceType = resourceType /\ r.resourceId = resourceId, limit)

getByAction(action, limit) == FindLatest(LAMBDA r : r.action = action, limit)

getBySeverity(severity, limit) == FindLatest(LAMBDA r : r.severity = severity, limit)

getCriticalActions(limit) == FindLatest(LAMBDA r : r.severity = "critical", limit)

\* aggregate: $match performedBy, $group by action with a count
getUserActionsSummary(userId) ==
    LET mine == SelectSeq(audit, LAMBDA r : r.performedBy = userId)
        actions == { mine[i].action : i \in 1..Len(mine) }
    IN [a \in actions |-> Cardinality({ i \in 1..Len(mine) : mine[i].action = a })]

Limits == {1, 2}

\* A read through one of the query statics.
AuditQuery ==
    /\ \E limit \in Limits, u \in UserIds, sev \in {"info", "critical"} :
         \E q \in { [op |-> "getByUser", result |-> getByUser(u, limit)],
                    [op |-> "getByResource", result |-> getByResource("user", u, limit)],
                    [op |-> "getByAction", result |-> getByAction("LOGIN", limit)],
                    [op |-> "getBySeverity", result |-> getBySeverity(sev, limit)],
                    [op |-> "getCriticalActions", result |-> getCriticalActions(limit)],
                    [op |-> "getUserActionsSummary", result |-> getUserActionsSummary(u)] } :
            last' = q
    /\ UNCHANGED <<loginVars, rateVars, audit, districts, sectors, cells, groups, users, pending, nsaves>>

\* A route handler records an action through AuditLog.logAction.
LogActionCall(action, resourceType, resourceId, performedBy, severity, storeOk) ==
    LET doc == AuditDoc(action, resourceType, resourceId, performedBy, [route |-> TRUE],
                        severity, "")
    IN /\ logActionResolves(doc, storeOk) => Len(audit) < MaxAudit
       /\ audit' = logAction(audit, doc, storeOk)
       /\ last' = [op |-> "logAction", doc |-> doc, resolved |-> logActionResolves(doc, storeOk)]
       /\ UNCHANGED <<loginVars, rateVars, districts, sectors, cells, groups, users, pending, nsaves>>

(***************************************************************************)
(* authenticate middleware.                                                *)
(***************************************************************************)
\* What the Authorization header carries: no bearer header, a bearer header
\* with an empty token, a token jwt.verify rejects, an expired token, or a
\* token that verifies.
Tokens == {"noHeader", "emptyToken", "malformed", "expired", "valid"}

NoResponse == [sent |-> FALSE]

JsonResponse(status, message) ==
    [sent |-> TRUE, status |-> status, body |-> [success |-> FALSE, message |-> message]]

\* Outcome of one run of authenticate: the response sent (if any), whether
\* next() was called, req.user afterwards, and the audit documents handed to
\* logAction.
authenticateLogsBeforeStatusCheck(token, userId, storeOk) ==
    LET user == users[userId]
        doc == AuditDoc("LOGIN", "user", userId, userId, [ipAddress |-> "ip"], "info",
                        "User authenticated successfully")
        Rejected(status, message) ==
            [response |-> JsonResponse(status, message), next |-> FALSE,
             user |-> None, attempts |-> <<>>]
    IN CASE token \in {"noHeader", "emptyToken"} ->
              Rejected(401, "Access denied. No token provided.")
         [] token = "malformed" -> Rejected(401, "Token is not valid.")
         [] token = "expired" -> Rejected(401, "Token has expired.")
         [] ~user.exists -> Rejected(401, "Token is not valid - user not found.")
         [] user.status = "suspended" ->
              [response |-> JsonResponse(403, "Your account has been suspended. Please contact support."),
               next |-> FALSE, user |-> None, attempts |-> <<doc>>]
         [] ~logActionResolves(doc, storeOk) ->
              [response |-> JsonResponse(500, "Server error during authentication."),
               next |-> FALSE, user |-> None, attempts |-> <<doc>>]
         [] OTHER ->
              [response |-> NoResponse, next |-> TRUE, user |-> userId, attempts |-> <<doc>>]

authenticateSetsUserBeforeAudit(token, userId, storeOk) ==
    LET user == users[userId]
        doc == AuditDoc("LOGIN", "user", userId, userId, [ipAddress |-> "ip"], "info",
                        "User authenticated successfully")
        Rejected(status, message) ==
            [response |-> JsonResponse(status, message), next |-> FALSE,
             user |-> None, attempts |-> <<>>]
    IN CASE token \in {"noHeader", "emptyToken"} ->
              Rejected(401, "Access denied. No token provided.")
         [] token = "malformed" -> Rejected(401, "Token is not valid.")
         [] token = "expired" -> Rejected(401, "Token has expired.")
         [] ~user.exists -> Rejected(401, "Token is not valid - user not found.")
         [] user.status = "suspended" ->
              Rejected(403, "Your account has been suspended. Please contact support.")
         [] ~logActionResolves(doc, storeOk) ->
              [response |-> JsonResponse(500, "Server error during authentication."),
               next |-> FALSE, user |-> userId, attempts |-> <<doc>>]
         [] OTHER ->
              [response |-> NoResponse, next |-> TRUE, user |-> userId, attempts |-> <<doc>>]

authenticate(token, userId, storeOk) ==
    LET user == users[userId]
        doc == AuditDoc("LOGIN", "user", userId, userId, [ipAddress |-> "ip"], "info",
                        "User authenticated successfully")
        Rejected(status, message) ==
            [response |-> JsonResponse(status, message), next |-> FALSE,
             user |-> None, attempts |-> <<>>]
    IN CASE token \in {"noHeader", "emptyToken"} ->
              Rejected(401, "Access denied. No token provided.")
         [] token = "malformed" -> Rejected(401, "Token is not valid.")
         [] token = "expired" -> Rejected(401, "Token has expired.")
         [] ~user.exists -> Rejected(401, "Token is not valid - user not found.")
         [] user.status = "suspended" ->
              Rejected(403, "Your account has been suspended. Please contact support.")
         [] ~logActionResolves(doc, storeOk) ->
              [response |-> JsonResponse(500, "Server error during authentication."),
               next |-> FALSE, user |-> None, attempts |-> <<doc>>]
         [] OTHER ->
              [response |-> NoResponse, next |-> TRUE, user |-> userId, attempts |-> <<doc>>]

Authenticate(token, userId, storeOk) ==
    LET out == authenticate(token, userId, storeOk)
    IN /\ out.next => Len(audit) < MaxAudit
       /\ audit' = IF out.attempts = <<>> THEN audit
                   ELSE logAction(audit, out.attempts[1], storeOk)
       /\ last' = [op |-> "authenticate", token |-> token, userId |-> userId,
                   storeOk |-> storeOk, out |-> out]
       /\ UNCHANGED <<loginVars, rateVars, districts, sectors, cells, groups, users, pending, nsaves>>

(***************************************************************************)
(* Global errorHandler.                                                    *)
(***************************************************************************)
\* statusCode 0 stands for an error without a statusCode: both are falsy in
\* error.statusCode || 500.
Err(name, code, statusCode, message, errors) ==
    [name |-> name, code |-> code, statusCode |-> statusCode, message |-> message,
     errors |-> errors, stack |-> "stack"]

\* Errors handed to the handler: one of each kind it tells apart, an error
\* carrying its own statusCode, and plain errors with and without a message.
Errors ==
    { Err("CastError", None, 0, "Cast to ObjectId failed", <<>>),
      Err("MongoServerError", "11000", 0, "E11000 duplicate key error", <<>>),
      Err("ValidationError", None, 0, "Validation failed",
          <<"Sector is required", "District is required">>),
      Err("JsonWebTokenError", None, 0, "jwt malformed", <<>>),
      Err("TokenExpiredError", None, 0, "jwt expired", <<>>),
      Err("MulterError", "LIMIT_FILE_SIZE", 0, "File too large", <<>>),
      Err("MulterError", "LIMIT_UNEXPECTED_FILE", 0, "Unexpected field", <<>>),
      Err("Error", None, 403, "Not allowed", <<>>),
      Err("Error", None, 0, "boom", <<>>),
      Err("Error", None, 0, "", <<>>) }

Methods == {"GET", "POST"}

\* The error object after the handler's chain of if-statements; array tells
\* whether message is the array of validation messages.
normalise(err) ==
    LET Plain(message, statusCode) ==
            [message |-> message, statusCode |-> statusCode, array |-> FALSE]
        e0 == Plain(err.message, err.statusCode)
        e1 == IF err.name = "CastError" THEN Plain("Resource not found", 404) ELSE e0
        e2 == IF err.code = "11000" THEN Plain("Duplicate field value entered", 400) ELSE e1
        e3 == IF err.name = "ValidationError"
              THEN [message |-> err.errors, statusCode |-> 400, array |-> TRUE] ELSE e2
        e4 == IF err.name = "JsonWebTokenError" THEN Plain("Invalid token", 401) ELSE e3
        e5 == IF err.name = "TokenExpiredError" THEN Plain("Token has expired", 401) ELSE e4
        e6 == IF err.code = "LIMIT_FILE_SIZE" THEN Plain("File too large", 400) ELSE e5
        e7 == IF err.code = "LIMIT_UNEXPECTED_FILE" THEN Plain("Unexpected file field", 400) ELSE e6
    IN e7

\* res.status(error.statusCode || 500).json({success: false, message: error.message || 'Server Error'})
errorResponse(err) ==
    LET error == normalise(err)
    IN JsonResponse(IF error.statusCode = 0 THEN 500 ELSE error.statusCode,
                    IF ~error.array /\ error.message = "" THEN "Server Error" ELSE error.message)

\* The audit document the handler hands to logAction.
errorAuditDoc(err, req) ==
    AuditDoc("ERROR", "system", None, req.user,
             [errorMessage |-> err.message, stack |-> err.stack,
              url |-> req.originalUrl, method |-> req.method],
             "error", "System error occurred")

\* Outcome of one run of the handler: the audit documents handed to
\* logAction, whether the awaited write rejected (the handler then throws
\* before it reaches res.status), and the response it sent.
errorHandler(err, req, storeOk) ==
    LET doc == errorAuditDoc(err, req)
        attempted == req.user # None
        rejected == attempted /\ ~logActionResolves(doc, storeOk)
    IN [attempts |-> IF attempted THEN <<doc>> ELSE <<>>,
        thrown |-> rejected,
        response |-> IF rejected THEN NoResponse ELSE errorResponse(err)]

\* req.user is set only by authenticate, to a user that exists and is not
\* suspended.
RequestUsers ==
    {None} \cup { u \in UserIds : users[u].exists /\ users[u].status # "suspended" }

ErrorHandler(err, req, storeOk) ==
    LET out == errorHandler(err, req, storeOk)
    IN /\ audit' = IF out.attempts = <<>> THEN audit
                   ELSE logAction(audit, out.attempts[1], storeOk)
       /\ last' = [op |-> "errorHandler", err |-> err, req |-> req, out |-> out]
       /\ UNCHANGED <<loginVars, rateVars, districts, sectors, cells, groups, users, pending, nsaves>>

InitAudit ==
    /\ districts = [d \in DistrictIds |-> NoDistrict]
    /\ sectors = [s \in SectorIds |-> NoSector]
    /\ cells = [c \in CellIds |-> NoCell]
    /\ groups = [g \in GroupIds |-> NoGroup]
    /\ users \in [UserIds -> {NewUser, [NewUser EXCEPT !.status = "suspended"], NoUser}]
    /\ pending = {}
    /\ last = [op |-> "init"]
    /\ nsaves = 0
    /\ audit = <<>>
    /\ RateLimiterUnused
    /\ NoLogins

NextAudit ==
    \/ \E token \in Tokens, u \in UserIds, storeOk \in BOOLEAN : Authenticate(token, u, storeOk)
    \/ \E err \in Errors, u \in RequestUsers, method \in Methods, storeOk \in BOOLEAN :
           ErrorHandler(err, [user |-> u, method |-> method, originalUrl |-> "/api/cells"], storeOk)
    \/ \E resourceType \in {"district", "system"}, resourceId \in {"D1", None},
          severity \in {"warning", "critical"}, storeOk \in BOOLEAN :
           LogActionCall("UPDATE", resourceType, resourceId, "U1", severity, storeOk)
    \/ AuditQuery

SpecAudit == InitAudit /\ [][NextAudit]_vars

\* The latest step was a run of the global errorHandler.
Handled == last.op = "errorHandler"

\* C17 as stated: when the audit write the handler attempted fails, the
\* client still receives the original error response, with the original
\* status and message.
C17_AuditFailureKeepsResponse ==
    (Handled /\ last.out.attempts # <<>> /\ last.out.thrown) =>
        last.out.response = errorResponse(last.err)

\* C18 as stated: for every error, with or without an authenticated user,
\* the handler attempts exactly one audit write, of severity error, whose
\* metadata holds the request's method, URL and the error's stack.
C18_ExactlyOneErrorAudit ==
    Handled =>
        /\ Len(last.out.attempts) = 1
        /\ last.out.attempts[1].severity = "error"
        /\ last.out.attempts[1].metadata.method = last.req.method
        /\ last.out.attempts[1].metadata.url = last.req.originalUrl
        /\ last.out.attempts[1].metadata.stack = last.err.stack

\* The status the handler is to answer an error with.
ExpectedStatus(err) ==
    CASE err.name = "CastError" -> 404
      [] err.code \in {"11000", "LIMIT_FILE_SIZE", "LIMIT_UNEXPECTED_FILE"} -> 400
      [] err.name = "ValidationError" -> 400
      [] err.name \in {"JsonWebTokenError", "TokenExpiredError"} -> 401
      [] OTHER -> IF err.statusCode = 0 THEN 500 ELSE err.statusCode

\* C19 as stated: for every error the handler sends one response
\* {success: false, message} whose status is 404, 400 or 401 by the kind of
\* error, else the error's own statusCode or 500.
C19_UniformResponse ==
    Handled =>
        /\ last.out.response.sent
        /\ last.out.response.status = ExpectedStatus(last.err)
        /\ last.out.response.body.success = FALSE
        /\ DOMAIN last.out.response.body = {"success", "message"}

\* C20: the audit log is append-only: every step of the AuditLog statics,
\* of authenticate and of errorHandler leaves the records already stored in
\* place and unchanged, and at most adds records after them.
C20_AuditAppendOnly ==
    [][ /\ Len(audit') >= Len(audit)
        /\ SubSeq(audit', 1, Len(audit)) = audit ]_vars

\* C20 witness: errorHandler ran for an authenticated request after a LOGIN
\* record and a route's record had been stored, and both are still there.
C20_Witness ==
    /\ Handled /\ last.out.attempts # <<>>
    /\ Len(audit) = 2
    /\ audit[1].action = "LOGIN"
    /\ audit[2].action = "UPDATE"

\* The latest step was a run of authenticate.
Authenticated == last.op = "authenticate"

\* C21: a request that passes authenticate (next() is called) has added
\* exactly one audit record, a LOGIN on resource type user whose resourceId
\* and performedBy are the authenticated user and whose severity is info,
\* and the record is stored when next() is called; a request authenticate
\* rejects adds no record.
C21_OneLoginRecordPerPass ==
    [][ last'.op = "authenticate" =>
          IF last'.out.next
          THEN /\ Len(audit') = Len(audit) + 1
               /\ SubSeq(audit', 1, Len(audit)) = audit
               /\ audit'[Len(audit')].action = "LOGIN"
               /\ audit'[Len(audit')].resourceType = "user"
               /\ audit'[Len(audit')].resourceId = last'.out.user
               /\ audit'[Len(audit')].performedBy = last'.out.user
               /\ audit'[Len(audit')].severity = "info"
          ELSE audit' = audit ]_vars

\* C21 witness: the same user passed authenticate twice and each pass left
\* its own LOGIN record.
C21_Witness ==
    /\ Authenticated /\ last.out.next
    /\ Len(audit) = 2
    /\ audit[1].action = "LOGIN" /\ audit[1].performedBy = last.out.user
    /\ audit[2].action = "LOGIN" /\ audit[2].performedBy = last.out.user

\* C26: authenticate either calls next() with req.user set or sends one
\* error response, never both and never neither; next() is called only for
\* a token that verifies, of an existing user who is not suspended, after
\* the LOGIN audit write succeeded; req.user is not set on a request that
\* got an error response.
C26_NextOrResponse ==
    Authenticated =>
        /\ last.out.next # last.out.response.sent
        /\ last.out.next =>
              /\ last.out.user = last.userId
              /\ last.token = "valid"
              /\ users[last.userId].exists
              /\ users[last.userId].status # "suspended"
              /\ Len(last.out.attempts) = 1
              /\ logActionResolves(last.out.attempts[1], last.storeOk)
        /\ last.out.response.sent => last.out.user = None

\* C26 witness: the token verified and the user is active, the LOGIN audit
\* write failed, and the request was answered 500 without next().
C26_Witness ==
    /\ Authenticated
    /\ last.token = "valid" /\ ~last.storeOk
    /\ users[last.userId].exists /\ users[last.userId].status = "active"
    /\ ~last.out.next
    /\ last.out.response.sent /\ last.out.response.status = 500

\* C23 as stated: validateHierarchy never throws or rejects: every call,
\* also one whose store lookup fails, returns {isValid, errors}, and isValid
\* is false exactly when errors is not empty.
C23_AlwaysReturnsResult ==
    last.op = "validateHierarchy" =>
        /\ last.settled = "fulfilled"
        /\ last.result.isValid = (last.result.errors = <<>>)

\* The rules of the role that fail for the given ids: a required reference
\* is missing, the referenced entity does not exist, the entity's parent
\* references differ from the ids given.
C24_FailedRules(role, d, s, c) ==
    LET required == CASE role = "district_admin" -> d = None
                      [] role = "sector_admin" -> d = None \/ s = None
                      [] role \in {"cell_admin", "member"} -> d = None \/ s = None \/ c = None
                      [] OTHER -> FALSE
        exists == CASE role = "district_admin" -> d = None \/ FindDistrict(d).exists
                    [] role = "sector_admin" -> s = None \/ FindSector(s).exists
                    [] role \in {"cell_admin", "member"} -> c = None \/ FindCell(c).exists
                    [] OTHER -> TRUE
        matches == CASE role = "sector_admin" ->
                          (s # None /\ d # None /\ FindSector(s).exists)
                              => FindSector(s).district = d
                     [] role \in {"cell_admin", "member"} ->
                          (c # None /\ FindCell(c).exists) =>
                              /\ s # None => FindCell(c).sector = s
                              /\ d # None => FindCell(c).district = d
                     [] OTHER -> TRUE
    IN { rule \in {"required", "exists", "matches"} :
           CASE rule = "required" -> required
             [] rule = "exists" -> ~exists
             [] rule = "matches" -> ~matches }

\* C24 as stated: validateHierarchy does not stop at the first failure: the
\* errors list holds an entry for each rule of the role that fails.
C24_OneErrorPerFailedRule ==
    Called =>
        Len(last.result.errors) >=
            Cardinality(C24_FailedRules(last.role, last.districtId, last.sectorId, last.cellId))

(***************************************************************************)
(* rateLimitSensitive middleware.                                          *)
(***************************************************************************)
MaxTime == 3

\* The clients that send requests: an address with an authenticated user and
\* another address without one.
Clients == { [ip |-> "10.0.0.1", user |-> "U1"], [ip |-> "10.0.0.2", user |-> None] }

\* req.ip + req.user?._id || 'anonymous': the concatenation is evaluated
\* first; without a user it is the address followed by "undefined", which
\* is never empty, so 'anonymous' is not used.
rateKey(ip, user) ==
    LET joined == ip \o (IF user = None THEN "undefined" ELSE user)
    IN IF joined = "" THEN "anonymous" ELSE joined

RateKeys == { rateKey(c.ip, c.user) : c \in Clients }

validRequestsInclusive(userRequests, windowStart) ==
    SelectSeq(userRequests, LAMBDA time : time >= windowStart)

\* userRequests.filter(time => time > windowStart)
validRequests(userRequests, windowStart) ==
    SelectSeq(userRequests, LAMBDA time : time > windowStart)

rateLimitCountsRejected(userRequests, time, windowMs, max) ==
    LET valid == validRequests(userRequests, time - windowMs)
    IN [status |-> IF Len(valid) >= max THEN 429 ELSE 200,
        next |-> Len(valid) < max,
        stored |-> Append(valid, time)]

\* One run of the middleware for a key whose stored list is userRequests:
\* the status answered (200 stands for no response of its own), whether
\* next() is called, and the list stored for the key afterwards.
rateLimit(userRequests, time, windowMs, max) ==
    LET valid == validRequests(userRequests, time - windowMs)
    IN IF Len(valid) >= max
       THEN [status |-> 429, next |-> FALSE, stored |-> userRequests]
       ELSE [status |-> 200, next |-> TRUE, stored |-> Append(valid, time)]

\* The timestamp list stored for a key; a key the Map does not hold yet gets
\* the empty list on its first request.
StoredRequests(key) == IF key \in DOMAIN requests THEN requests[key] ELSE <<>>

Admitted(key) == IF key \in DOMAIN admitted THEN admitted[key] ELSE <<>>

Denied(key) == IF key \in DOMAIN denied THEN denied[key] ELSE {}

RateLimitRequest(ip, user) ==
    LET key == rateKey(ip, user)
        out == rateLimit(StoredRequests(key), now, limits.windowMs, limits.max)
    IN /\ requests' = [k \in DOMAIN requests \cup {key} |->
                          IF k = key THEN out.stored ELSE requests[k]]
       /\ admitted' = [k \in DOMAIN admitted \cup {key} |->
                          IF k = key
                          THEN IF out.next THEN Append(Admitted(key), now) ELSE Admitted(key)
                          ELSE admitted[k]]
       /\ denied' = [k \in DOMAIN denied \cup {key} |->
                          IF k = key
                          THEN IF out.next THEN Denied(key) ELSE Denied(key) \cup {now}
                          ELSE denied[k]]
       /\ last' = [op |-> "rateLimit", key |-> key, at |-> now,
                   status |-> out.status, next |-> out.next]
       /\ UNCHANGED <<loginVars, now, limits, audit, districts, sectors, cells, groups,
                      users, pending, nsaves>>

\* Time passes between requests.
Tick ==
    /\ now < MaxTime
    /\ now' = now + 1
    /\ UNCHANGED <<loginVars, limits, requests, admitted, denied, last, audit, districts,
                   sectors, cells, groups, users, pending, nsaves>>

InitRate ==
    /\ districts = [d \in DistrictIds |-> NoDistrict]
    /\ sectors = [s \in SectorIds |-> NoSector]
    /\ cells = [c \in CellIds |-> NoCell]
    /\ groups = [g \in GroupIds |-> NoGroup]
    /\ users = [u \in UserIds |-> NewUser]
    /\ pending = {}
    /\ last = [op |-> "init"]
    /\ nsaves = 0
    /\ audit = <<>>
    /\ now = 0
    /\ limits \in { [windowMs |-> 2, max |-> max] : max \in {1, 2} }
    /\ requests = [key \in {} |-> <<>>]
    /\ admitted = [key \in {} |-> <<>>]
    /\ denied = [key \in {} |-> {}]
    /\ NoLogins

NextRate ==
    \/ \E c \in Clients : RateLimitRequest(c.ip, c.user)
    \/ Tick

SpecRate == InitRate /\ [][NextRate]_vars

\* Number of the timestamps that lie in the window (lo, hi].
CountIn(times, lo, hi) ==
    Cardinality({ i \in 1..Len(times) : times[i] > lo /\ times[i] <= hi })

\* The latest request was handled by rateLimitSensitive.
RateLimited == last.op = "rateLimit"

\* C22: for every key and every time t at most max admitted requests lie in
\* (t - windowMs, t], and a request at time t is answered 429 exactly when
\* max admitted requests of its key already lie in (t - windowMs, t].
C22_SlidingWindow ==
    /\ \A key \in RateKeys : \A t \in 0..(MaxTime + limits.windowMs) :
          CountIn(Admitted(key), t - limits.windowMs, t) <= limits.max
    /\ RateLimited =>
          LET inWindow == CountIn(Admitted(last.key), last.at - limits.windowMs, last.at)
              before == IF last.next THEN inWindow - 1 ELSE inWindow
          IN /\ (last.status = 429) = (before = limits.max)
             /\ last.next = (last.status # 429)

\* C22 witness: with max = 2 a key was admitted three times, the first
\* admission has left the window, and its next request was answered 429.
C22_Witness ==
    /\ RateLimited /\ last.status = 429
    /\ limits.max = 2
    /\ Len(Admitted(last.key)) = 3
    /\ Admitted(last.key)[1] <= last.at - limits.windowMs

\* C30: a request answered 429 leaves the stored list of every key as it
\* is; a request arriving windowMs or more after the oldest stored
\* timestamp of its key is admitted, whatever was rejected in between; and
\* no request changes the stored list of another key.
C30_RejectionLeavesQuota ==
    [][ (last'.op = "rateLimit" /\ now' = now) =>
          LET key == last'.key
              stored == StoredRequests(key)
          IN /\ ~last'.next => requests' = requests \/ requests' = [requests EXCEPT ![key] = @]
             /\ ~last'.next => \A k \in RateKeys : StoredRequests(k)' = StoredRequests(k)
             /\ (stored # <<>> /\ now >= stored[1] + limits.windowMs) => last'.next
             /\ \A k \in RateKeys \ {key} : StoredRequests(k)' = StoredRequests(k) ]_vars

\* C30 witness: a key was answered 429, and its request at a time windowMs
\* after its oldest admission was admitted again, while the other key had
\* requests of its own.
C30_Witness ==
    /\ RateLimited /\ last.next
    /\ \E t \in Denied(last.key) : t < last.at
    /\ last.at >= Admitted(last.key)[1] + limits.windowMs
    /\ \E k \in RateKeys \ {last.key} : Admitted(k) # <<>>

(***************************************************************************)
(* authorizeHierarchy middleware.                                          *)
(***************************************************************************)
\* User documents as the role cascades leave them, and a member.
Profile(role, district, sector, cell) ==
    [NewUser EXCEPT !.role = role, !.district = district, !.sector = sector, !.cell = cell]

Profiles ==
    { NewUser,
      Profile("district_admin", "D1", None, None),
      Profile("sector_admin", "D1", "S1", None),
      Profile("cell_admin", "D1", "S1", "C1"),
      Profile("member", "D1", "S1", "C1") }

\* req.params of the routes behind the middleware.
Params ==
    [districtId : DistrictIds \cup {None}, sectorId : SectorRefs \cup {None},
     cellId : CellIds \cup {"C2", None}]

\* Outcome of one run: the status answered (200 stands for no response of
\* its own) and whether next() is called. Reading .toString() of a hierarchy
\* field the user does not have throws inside the try block and is answered
\* 500.
authorizeHierarchy(user, params) ==
    LET Answer(status) == [status |-> status, next |-> FALSE]
        Pass == [status |-> 200, next |-> TRUE]
        Check(own, asked) ==
            IF asked = None THEN Pass
            ELSE IF own = None THEN Answer(500)
            ELSE IF own # asked THEN Answer(403)
            ELSE Pass
    IN CASE user = None -> Answer(401)
         [] users[user].role = "super_admin" -> Pass
         [] users[user].role = "district_admin" -> Check(users[user].district, params.districtId)
         [] users[user].role = "sector_admin" -> Check(users[user].sector, params.sectorId)
         [] users[user].role = "cell_admin" -> Check(users[user].cell, params.cellId)
         [] OTHER -> Pass

AuthorizeHierarchy(user, params) ==
    /\ last' = [op |-> "authorizeHierarchy", user |-> user, params |-> params,
                out |-> authorizeHierarchy(user, params)]
    /\ UNCHANGED <<loginVars, rateVars, audit, districts, sectors, cells, groups, users, pending, nsaves>>

InitAuthorize ==
    /\ districts = [d \in DistrictIds |->
                      [exists |-> TRUE, code |-> IF d = "D1" THEN "KGL" ELSE "HUY", admin |-> None]]
    /\ sectors = [s \in SectorIds |-> [exists |-> TRUE, district |-> "D1", admin |-> None]]
    /\ cells = [c \in CellIds |->
                  [exists |-> TRUE, sector |-> "S1", district |-> "D1", admin |-> None]]
    /\ groups = [g \in GroupIds |-> NoGroup]
    /\ users \in [UserIds -> Profiles]
    /\ pending = {}
    /\ last = [op |-> "init"]
    /\ nsaves = 0
    /\ audit = <<>>
    /\ RateLimiterUnused
    /\ NoLogins

NextAuthorize ==
    \E user \in UserIds \cup {None}, params \in Params : AuthorizeHierarchy(user, params)

SpecAuthorize == InitAuthorize /\ [][NextAuthorize]_vars

\* Every hierarchy id the request names lies on or under the user's own
\* chain.
C25_InsideOwnHierarchy(user, params) ==
    LET d == params.districtId
        s == params.sectorId
        c == params.cellId
    IN CASE user.role = "district_admin" ->
              /\ d \in {None, user.district}
              /\ s # None => FindSector(s).exists /\ FindSector(s).district = user.district
              /\ c # None => FindCell(c).exists /\ FindCell(c).district = user.district
         [] user.role = "sector_admin" ->
              /\ d \in {None, user.district}
              /\ s \in {None, user.sector}
              /\ c # None => FindCell(c).exists /\ FindCell(c).sector = user.sector
         [] user.role = "cell_admin" ->
              /\ d \in {None, user.district}
              /\ s \in {None, user.sector}
              /\ c \in {None, user.cell}
         [] OTHER -> TRUE

\* C25 as stated: for a district_admin, sector_admin or cell_admin
\* authorizeHierarchy calls next() only if every hierarchy id in the request
\* params lies inside the user's own hierarchy; a request naming a district,
\* sector or cell outside it is answered 403.
C25_AdminsStayInOwnHierarchy ==
    (/\ last.op = "authorizeHierarchy" /\ last.user # None
     /\ users[last.user].role \in {"district_admin", "sector_admin", "cell_admin"}) =>
        /\ last.out.next => C25_InsideOwnHierarchy(users[last.user], last.params)
        /\ ~C25_InsideOwnHierarchy(users[last.user], last.params) =>
              last.out.status = 403 /\ ~last.out.next

\* C27 as stated: when a save that made u admin of one entity completed
\* before a save that makes u admin of another entity began, the User update
\* of the later save is not applied before the update of the earlier one, so
\* that u ends with the role and hierarchy of the later save.
C27_UpdatesAppliedInSaveOrder ==
    [][ (\E kind \in {"district", "sector", "cell"} : AdminAssigned(kind)) =>
          \A later \in IssuedBy(last.kind, last.id) : \A earlier \in pending :
              (/\ later.user = last.doc.admin
               /\ earlier.user = later.user
               /\ earlier.kind \in {"district", "sector", "cell"}
               /\ <<earlier.kind, earlier.id>> # <<later.kind, later.id>>
               /\ earlier.saved.ok)
              => ~ApplyUpdate(later) ]_vars

(***************************************************************************)
(* Login attempts: incLoginAttempts, resetLoginAttempts and isLocked.      *)
(* One tick of the clock is an hour.                                       *)
(***************************************************************************)
MaxCalls == 6

LockThreshold == 5

LockTicks == 2

\* virtual isLocked: !!(this.lockUntil && this.lockUntil > Date.now())
isLocked(doc, time) == doc.lockUntil # 0 /\ doc.lockUntil > time

\* The update document incLoginAttempts builds from the loaded copy.
incLoginAttemptsRelocks(doc, time) ==
    IF doc.lockUntil # 0 /\ doc.lockUntil < time
    THEN [restart |-> TRUE, lock |-> FALSE, until |-> 0]
    ELSE [restart |-> FALSE,
          lock |-> doc.loginAttempts + 1 >= LockThreshold,
          until |-> time + LockTicks]

incLoginAttempts(doc, time) ==
    IF doc.lockUntil # 0 /\ doc.lockUntil < time
    THEN [restart |-> TRUE, lock |-> FALSE, until |-> 0]
    ELSE [restart |-> FALSE,
          lock |-> doc.loginAttempts + 1 >= LockThreshold /\ ~isLocked(doc, time),
          until |-> time + LockTicks]

\* this.updateOne(update): $set/$unset write the given values, $inc adds to
\* the stored loginAttempts.
updateOne(stored, update) ==
    IF update.restart
    THEN [loginAttempts |-> 1, lockUntil |-> 0]
    ELSE [loginAttempts |-> stored.loginAttempts + 1,
          lockUntil |-> IF update.lock THEN update.until ELSE stored.lockUntil]

\* A login request loads the user.
LoadUser(r) ==
    /\ ~loaded[r].loaded
    /\ loaded' = [loaded EXCEPT ![r] = [loaded |-> TRUE,
                                        loginAttempts |-> account.loginAttempts,
                                        lockUntil |-> account.lockUntil]]
    /\ last' = [op |-> "loadUser", r |-> r]
    /\ UNCHANGED <<account, calls, rateVars, audit, districts, sectors, cells, groups, users,
                   pending, nsaves>>

\* The login failed: the request calls incLoginAttempts on its copy.
IncLoginAttempts(r) ==
    /\ loaded[r].loaded
    /\ calls.incs < MaxCalls
    /\ account' = updateOne(account, incLoginAttempts(loaded[r], now))
    /\ loaded' = [loaded EXCEPT ![r] = NoCopy]
    /\ calls' = [calls EXCEPT
                   !.incs = @ + 1,
                   !.stale = @ \/ loaded[r].loginAttempts # account.loginAttempts
                               \/ loaded[r].lockUntil # account.lockUntil,
                   !.fifthAt = IF calls.incs + 1 = LockThreshold THEN now ELSE @,
                   !.unlocked = @ \/ (calls.incs >= LockThreshold /\ ~isLocked(account, now))]
    /\ last' = [op |-> "incLoginAttempts", r |-> r, at |-> now]
    /\ UNCHANGED <<rateVars, audit, districts, sectors, cells, groups, users, pending, nsaves>>

\* The login succeeded: the request calls resetLoginAttempts on its copy.
ResetLoginAttempts(r) ==
    /\ loaded[r].loaded
    /\ account' = [loginAttempts |-> 0, lockUntil |-> 0]
    /\ loaded' = [loaded EXCEPT ![r] = NoCopy]
    /\ calls' = [calls EXCEPT !.reset = TRUE]
    /\ last' = [op |-> "resetLoginAttempts", r |-> r, at |-> now]
    /\ UNCHANGED <<rateVars, audit, districts, sectors, cells, groups, users, pending, nsaves>>

NextLogin ==
    \/ \E r \in Logins : LoadUser(r)
    \/ \E r \in Logins : IncLoginAttempts(r)
    \/ \E r \in Logins : ResetLoginAttempts(r)
    \/ Tick

SpecLogin == Init /\ [][NextLogin]_vars

\* C28: starting from loginAttempts 0 and no lockUntil, with every
\* incLoginAttempts call made on a freshly loaded copy and no
\* resetLoginAttempts, the account is not locked after fewer than 5 calls,
\* the 5th call sets lockUntil to its time plus the lock period, and the
\* calls made while the account is locked leave lockUntil as it is.
C28_LockedAtFifthFailure ==
    (~calls.stale /\ ~calls.reset) =>
        /\ calls.incs < LockThreshold =>
              account.lockUntil = 0 /\ account.loginAttempts = calls.incs
        /\ (calls.incs >= LockThreshold /\ ~calls.unlocked) =>
              account.lockUntil = calls.fifthAt + LockTicks

\* C28 witness: a sixth failed login was recorded an hour after the fifth,
\* while the account was locked, and lockUntil is still the one the fifth
\* call set.
C28_Witness ==
    /\ ~calls.stale /\ ~calls.reset /\ ~calls.unlocked
    /\ calls.incs = LockThreshold + 1
    /\ last.op = "incLoginAttempts" /\ last.at > calls.fifthAt
    /\ account.lockUntil = calls.fifthAt + LockTicks

\* C29 as stated: once every login request has made its call, the stored
\* loginAttempts is 5 or more exactly when lockUntil is set.
C29_AttemptsAndLockAgree ==
    (\A r \in Logins : ~loaded[r].loaded) =>
        ((account.loginAttempts >= LockThreshold) = (account.lockUntil # 0))

====
